---- MODULE Spec2Model ----
(***************************************************************************)
(* Error normalisation in the two FastAPI applications of the repository:  *)
(*   variant "A"  src/main.py     typed handlers for HTTPException and     *)
(*                                Exception                                *)
(*   variant "B"  src/revised.py  typed handler for HTTPException plus a   *)
(*                                wrapping "http" middleware               *)
(* A request walks  Idle -> Processing -> Failed -> (Handled ->) Returned   *)
(* -> Responded.  Requests of one application interleave freely; the only   *)
(* object they share is the module-level logger.                           *)
(***************************************************************************)
EXTENDS Integers, Sequences, FiniteSets, TLC

VARIABLES
    deployed,   \* the applications that are running
    req,        \* req[r]: the request with id r, NoRequest before it arrives
    pc,         \* pc[v][r]: where request r is in application v
    exc,        \* exc[v][r]: the exception in flight, NoExc when there is none
    resp,       \* resp[v][r]: the response object a handler returned
    wire,       \* wire[v][r]: the responses sent to the client, in order
    log,        \* log[v]: the records emitted through logger, in order
    raised,     \* raised[v][r]: what the route raised (history, never read by a handler)
    invoked     \* invoked[v][r]: the handlers entered for r, each with the class of
                \* the exception it was given (history, never read by a handler)

vars == <<deployed, req, pc, exc, resp, wire, log, raised, invoked>>

(* ---------------------------------------------------------------- bounds *)
NumReq == 2          \* request ids when one application is deployed
NumPairReq == 1      \* request ids when both are deployed side by side

Variants == {"A", "B"}
ReqIds == 1..NumReq
PairReqIds == 1..NumPairReq
AllIds == ReqIds \cup PairReqIds

(* --------------------------------------------------------------- values *)
NoExc == [cls |-> "None", status_code |-> 0, text |-> ""]
NoResp == [status_code |-> 0, message |-> ""]
NoRequest == [path |-> "", raises |-> NoExc]

\* HTTPException(status_code=s, detail=d)
HTTPException(s, d) == [cls |-> "HTTPException", status_code |-> s, text |-> d]
\* Exception(msg); str(exc) is msg
Exception(msg) == [cls |-> "Exception", status_code |-> 0, text |-> msg]

\* the status codes, details and messages a route may raise with
StatusCodes == {400, 403, 404, 500, 599}
Details == {"Not Found", "custom detail"}
Messages == {"Unexpected Error!!", "db password=hunter2"}
Failures == {HTTPException(s, d) : s \in StatusCodes, d \in Details}
              \cup {Exception(m) : m \in Messages}

Requests == {[path |-> "/404", raises |-> NoExc], [path |-> "/500", raises |-> NoExc]}
              \cup {[path |-> "/other", raises |-> f] : f \in Failures}

\* http.HTTPStatus: the members among StatusCodes, with their phrases
HTTPStatusPhrase ==
    (400 :> "Bad Request") @@ (403 :> "Forbidden") @@ (404 :> "Not Found")
        @@ (500 :> "Internal Server Error")

\* HTTPStatus(code) of a code that is no member raises ValueError with this text
ValueError(code) ==
    [cls |-> "ValueError", status_code |-> 0,
     text |-> ToString(code) \o " is not a valid HTTPStatus"]

\* JSONResponse(content={"message": m}, status_code=s)
JSONResponse(m, s) == [status_code |-> s, message |-> m]

\* slip: exc_info left at logger.exception's default
LogRecord_with_traceback(r, t) ==
    [req |-> r, levelname |-> "ERROR", exc_info |-> TRUE, text |-> t]

\* logger.exception(text, exc_info=False); req is the request being handled
LogRecord(r, t) == [req |-> r, levelname |-> "ERROR", exc_info |-> FALSE, text |-> t]

\* history entry: handler h was entered with exception e
Entered(h, e) == [handler |-> h, cls |-> e.cls]

(* ----------------------------------------------------------------- Init *)
InitFields ==
    /\ req = [r \in AllIds |-> NoRequest]
    /\ pc = [v \in Variants |-> [r \in AllIds |-> "Idle"]]
    /\ exc = [v \in Variants |-> [r \in AllIds |-> NoExc]]
    /\ resp = [v \in Variants |-> [r \in AllIds |-> NoResp]]
    /\ wire = [v \in Variants |-> [r \in AllIds |-> <<>>]]
    /\ log = [v \in Variants |-> <<>>]
    /\ raised = [v \in Variants |-> [r \in AllIds |-> NoExc]]
    /\ invoked = [v \in Variants |-> [r \in AllIds |-> <<>>]]

Init == deployed \in {{"A"}, {"B"}} /\ InitFields

InitPair == deployed = Variants /\ InitFields

\* the request ids the running deployment serves
Ids == IF deployed = Variants THEN PairReqIds ELSE ReqIds

(* -------------------------------------------------------------- actions *)
\* the runtime accepts request r and hands it to every running application
Receive(r, q) ==
    /\ r \in Ids
    /\ req[r] = NoRequest
    /\ req' = [req EXCEPT ![r] = q]
    /\ pc' = [v \in Variants |->
                 IF v \in deployed THEN [pc[v] EXCEPT ![r] = "Processing"] ELSE pc[v]]
    /\ UNCHANGED <<deployed, exc, resp, wire, log, raised, invoked>>

Raise(v, r, e) ==
    /\ pc' = [pc EXCEPT ![v][r] = "Failed"]
    /\ exc' = [exc EXCEPT ![v][r] = e]
    /\ raised' = [raised EXCEPT ![v][r] = e]
    /\ UNCHANGED <<deployed, req, resp, wire, log, invoked>>

raise404(v, r) ==
    /\ pc[v][r] = "Processing"
    /\ req[r].path = "/404"
    /\ Raise(v, r, HTTPException(404, "Not Found"))

raise500(v, r) ==
    /\ pc[v][r] = "Processing"
    /\ req[r].path = "/500"
    /\ Raise(v, r, Exception("Unexpected Error!!"))

\* any other route: it raises the failure the request stands for
raise_other(v, r) ==
    /\ pc[v][r] = "Processing"
    /\ req[r].path = "/other"
    /\ Raise(v, r, req[r].raises)

(* ------------------------------------------------------------- handlers *)
\* Which code receives an exception raised by a route or by a handler.  The
\* handler registered for HTTPException is looked up by the exception's class
\* in the exception layer, which lies inside both the Exception handler of
\* variant A and the middleware of variant B.
lookup_handler(v, e) ==
    IF e.cls = "HTTPException" THEN "handle_http_exception"
    ELSE IF v = "A" THEN "handle_exception"
    ELSE "server_error_middleware"

\* slip: status_code= left out of JSONResponse, which then answers 200
http_exception_response_default_status(e) ==
    JSONResponse(HTTPStatusPhrase[e.status_code], 200)

\* the JSONResponse handle_http_exception builds once HTTPStatus(code) exists
http_exception_response(e) ==
    JSONResponse(HTTPStatusPhrase[e.status_code], e.status_code)

\* where the response of the typed handler goes next: in variant B it is the
\* value of call_next(request) inside the middleware, in variant A it leaves
\* the application
after_typed_handler(v) == IF v = "B" THEN "Handled" ELSE "Returned"

handle_http_exception(v, r) ==
    /\ pc[v][r] = "Failed"
    /\ lookup_handler(v, exc[v][r]) = "handle_http_exception"
    /\ IF exc[v][r].status_code \in DOMAIN HTTPStatusPhrase
       THEN /\ resp' = [resp EXCEPT ![v][r] = http_exception_response(exc[v][r])]
            /\ exc' = [exc EXCEPT ![v][r] = NoExc]
            /\ pc' = [pc EXCEPT ![v][r] = after_typed_handler(v)]
       ELSE \* HTTPStatus(exc.status_code) raises inside the handler
            /\ exc' = [exc EXCEPT ![v][r] = ValueError(exc[v][r].status_code)]
            /\ UNCHANGED <<resp, pc>>
    /\ invoked' = [invoked EXCEPT ![v][r] = Append(@, Entered("handle_http_exception", exc[v][r]))]
    /\ UNCHANGED <<deployed, req, wire, log, raised>>

\* slip: status_code= left out of JSONResponse, which then answers 200
exception_response_default_status == JSONResponse("Internal Server Error", 200)

\* slip: the body is taken from what the shared logger saw last
exception_response_from_last_record ==
    JSONResponse(IF log["A"] = <<>> THEN "Internal Server Error"
                 ELSE log["A"][Len(log["A"])].text, 500)

\* variant A: the JSONResponse of handle_exception
exception_response == JSONResponse("Internal Server Error", 500)

\* slip: the handler answers with str(exc)
handle_exception_leaks_message(r) ==
    /\ pc["A"][r] = "Failed"
    /\ lookup_handler("A", exc["A"][r]) = "handle_exception"
    /\ log' = [log EXCEPT !["A"] = Append(@, LogRecord(r, exc["A"][r].text))]
    /\ resp' = [resp EXCEPT !["A"][r] = JSONResponse(exc["A"][r].text, 500)]
    /\ exc' = [exc EXCEPT !["A"][r] = NoExc]
    /\ pc' = [pc EXCEPT !["A"][r] = "Returned"]
    /\ invoked' = [invoked EXCEPT !["A"][r] = Append(@, Entered("handle_exception", exc["A"][r]))]
    /\ UNCHANGED <<deployed, req, wire, raised>>

\* variant A: @app.exception_handler(Exception)
handle_exception(r) ==
    /\ pc["A"][r] = "Failed"
    /\ lookup_handler("A", exc["A"][r]) = "handle_exception"
    /\ log' = [log EXCEPT !["A"] = Append(@, LogRecord(r, exc["A"][r].text))]
    /\ resp' = [resp EXCEPT !["A"][r] = exception_response]
    /\ exc' = [exc EXCEPT !["A"][r] = NoExc]
    /\ pc' = [pc EXCEPT !["A"][r] = "Returned"]
    /\ invoked' = [invoked EXCEPT !["A"][r] = Append(@, Entered("handle_exception", exc["A"][r]))]
    /\ UNCHANGED <<deployed, req, wire, raised>>

\* slip: the body carries the text that was meant for the log
middleware_response_log_text == JSONResponse("Unexpected Error!!!", 500)

\* variant B: the JSONResponse of the middleware's except branch
middleware_response == JSONResponse("Internal Server Error", 500)

\* slip: the middleware without its except branch
server_error_middleware_no_except(r) ==
    /\ pc["B"][r] = "Handled"
    /\ pc' = [pc EXCEPT !["B"][r] = "Returned"]
    /\ UNCHANGED <<deployed, req, exc, resp, wire, log, raised, invoked>>

\* variant B: @app.middleware("http")
server_error_middleware(r) ==
    \/ \* try: return await call_next(request)
       /\ pc["B"][r] = "Handled"
       /\ pc' = [pc EXCEPT !["B"][r] = "Returned"]
       /\ UNCHANGED <<deployed, req, exc, resp, wire, log, raised, invoked>>
    \/ \* except Exception:
       /\ pc["B"][r] = "Failed"
       /\ lookup_handler("B", exc["B"][r]) = "server_error_middleware"
       /\ log' = [log EXCEPT !["B"] = Append(@, LogRecord(r, "Unexpected Error!!!"))]
       /\ resp' = [resp EXCEPT !["B"][r] = middleware_response]
       /\ exc' = [exc EXCEPT !["B"][r] = NoExc]
       /\ pc' = [pc EXCEPT !["B"][r] = "Returned"]
       /\ invoked' = [invoked EXCEPT !["B"][r] = Append(@, Entered("except Exception", exc["B"][r]))]
       /\ UNCHANGED <<deployed, req, wire, raised>>

\* the runtime writes the returned response to the client
Send(v, r) ==
    /\ pc[v][r] = "Returned"
    /\ wire' = [wire EXCEPT ![v][r] = Append(@, resp[v][r])]
    /\ pc' = [pc EXCEPT ![v][r] = "Responded"]
    /\ UNCHANGED <<deployed, req, exc, resp, log, raised, invoked>>

(* ------------------------------------------------------- specifications *)
Step(v, r) ==
    \/ raise404(v, r)
    \/ raise500(v, r)
    \/ raise_other(v, r)
    \/ handle_http_exception(v, r)
    \/ (v = "A" /\ handle_exception(r))
    \/ (v = "B" /\ server_error_middleware(r))
    \/ Send(v, r)

Next ==
    \/ \E r \in AllIds, q \in Requests : Receive(r, q)
    \/ \E v \in Variants, r \in AllIds : raise404(v, r)
    \/ \E v \in Variants, r \in AllIds : raise500(v, r)
    \/ \E v \in Variants, r \in AllIds : raise_other(v, r)
    \/ \E v \in Variants, r \in AllIds : handle_http_exception(v, r)
    \/ \E r \in AllIds : handle_exception(r)
    \/ \E r \in AllIds : server_error_middleware(r)
    \/ \E v \in Variants, r \in AllIds : Send(v, r)

\* one application, concurrent requests
Spec == Init /\ [][Next]_vars

\* both applications side by side, fed the same requests
SpecPair == InitPair /\ [][Next]_vars

\* the event loop runs every task that is ready: no request that can take a
\* step is left waiting for ever
FairSpec == Spec /\ \A v \in Variants, r \in AllIds : WF_vars(Step(v, r))

(* ---------------------------------------------------------------- types *)
TypeOK ==
    /\ deployed \in SUBSET Variants
    /\ \A v \in Variants, r \in AllIds :
          /\ pc[v][r] \in {"Idle", "Processing", "Failed", "Handled", "Returned", "Responded"}
          /\ Len(wire[v][r]) <= 1

(* --------------------------------------------------------------- claims *)
Responded(v, r) == pc[v][r] = "Responded"
Classified(e) == e.cls = "HTTPException"
Unclassified(e) == e.cls = "Exception"
\* the log records of application v emitted while handling request r
RecordsOf(v, r) == {i \in 1..Len(log[v]) : log[v][i].req = r}
\* every response request r was sent by application v equals x
OnlyAnswer(v, r, x) ==
    /\ \A i \in 1..Len(wire[v][r]) : wire[v][r][i] = x
    /\ Responded(v, r) => wire[v][r] = <<x>>
GenericBody == [status_code |-> 500, message |-> "Internal Server Error"]

\* C1: a classified failure with status code S is answered with status S and
\* the table's phrase for S whatever its detail, also when S has no entry in
\* the table (the phrase can only be required where the table has one).
C1_ClassifiedAnsweredWithOwnStatus ==
    \A v \in Variants, r \in AllIds :
        (Classified(raised[v][r]) /\ Responded(v, r)) =>
            /\ Len(wire[v][r]) = 1
            /\ wire[v][r][1].status_code = raised[v][r].status_code
            /\ raised[v][r].status_code \in DOMAIN HTTPStatusPhrase =>
                  wire[v][r][1].message = HTTPStatusPhrase[raised[v][r].status_code]

\* C2: every request to /404 is answered 404 {"message": "Not Found"} and
\* with nothing else, in both variants.
C2_NotFound ==
    \A v \in Variants, r \in AllIds :
        req[r].path = "/404" =>
            OnlyAnswer(v, r, [status_code |-> 404, message |-> "Not Found"])

C2_Witness ==
    \E r \in AllIds :
        req[r].path = "/404" /\ Responded("A", r) /\ Responded("B", r)

\* C3: every request to /500 is answered 500 {"message": "Internal Server
\* Error"} and with nothing else, in both variants.
C3_InternalServerError ==
    \A v \in Variants, r \in AllIds :
        req[r].path = "/500" => OnlyAnswer(v, r, GenericBody)

C3_Witness ==
    \E r \in AllIds :
        /\ req[r].path = "/500" /\ Responded("A", r) /\ Responded("B", r)
        /\ invoked["A"][r] = <<[handler |-> "handle_exception", cls |-> "Exception"]>>
        /\ invoked["B"][r] = <<[handler |-> "except Exception", cls |-> "Exception"]>>

Rank(p) ==
    CASE p = "Idle" -> 0
      [] p = "Processing" -> 1
      [] p = "Failed" -> 2
      [] p = "Handled" -> 3
      [] p = "Returned" -> 4
      [] p = "Responded" -> 5

\* C5: no request stays unanswered (again and again every request that has
\* arrived is Responded), a request never goes back a step (nothing is
\* retried, Responded is final), and no request is ever answered more than
\* once (exactly once when Responded).
C5_ExactlyOneResponse ==
    /\ []<>(\A v \in Variants, r \in AllIds : pc[v][r] \in {"Idle", "Responded"})
    /\ [][\A v \in Variants, r \in AllIds : Rank(pc[v][r]') >= Rank(pc[v][r])]_vars
    /\ [](\A v \in Variants, r \in AllIds :
             /\ Len(wire[v][r]) <= 1
             /\ Responded(v, r) => Len(wire[v][r]) = 1)

C5_Witness ==
    \E v \in Variants, r1 \in AllIds, r2 \in AllIds :
        /\ Responded(v, r1) /\ Classified(raised[v][r1])
        /\ Responded(v, r2) /\ Unclassified(raised[v][r2])

\* C6: the classified handler wins over the catch-all path: in variant A
\* handle_exception is never entered with an HTTPException, and in variant B
\* a classified failure never enters the middleware's except branch and is
\* answered with its own status code.
C6_ClassifiedHandlerWins ==
    /\ \A r \in AllIds :
          \A i \in 1..Len(invoked["A"][r]) :
              invoked["A"][r][i] # [handler |-> "handle_exception", cls |-> "HTTPException"]
    /\ \A r \in AllIds :
          Classified(raised["B"][r]) =>
              /\ \A i \in 1..Len(invoked["B"][r]) :
                    invoked["B"][r][i].handler # "except Exception"
              /\ Responded("B", r) =>
                    wire["B"][r][1].status_code = raised["B"][r].status_code

\* C7: the response to a request depends only on that request: two requests
\* of one application that ask the same are answered the same, however they
\* interleave, and a step taken for one request leaves the exception,
\* response object and sent responses of every other request alone.
C7_NonInterference ==
    /\ [](\A v \in Variants, r1 \in AllIds, r2 \in AllIds :
             (req[r1] = req[r2] /\ Responded(v, r1) /\ Responded(v, r2)) =>
                 wire[v][r1] = wire[v][r2])
    /\ [][\A v \in Variants, r1 \in AllIds, r2 \in AllIds :
             (r1 # r2 /\ <<pc[v][r1], exc[v][r1], resp[v][r1], wire[v][r1]>>
                          # <<pc[v][r1], exc[v][r1], resp[v][r1], wire[v][r1]>>') =>
                 <<pc[v][r2], exc[v][r2], resp[v][r2], wire[v][r2]>>
                    = <<pc[v][r2], exc[v][r2], resp[v][r2], wire[v][r2]>>']_vars

C7_Witness ==
    \E v \in Variants, r1 \in AllIds, r2 \in AllIds :
        /\ r1 # r2 /\ req[r1] = req[r2]
        /\ Responded(v, r1) /\ Responded(v, r2)
        /\ Unclassified(raised[v][r1])
        /\ Len(log[v]) = 2 /\ log[v][1].req = r2 /\ log[v][2].req = r1

\* C8: for an unclassified failure exactly one record is logged, at error
\* severity and without stack trace, no later than the 500 response exists
\* (none while the failure is still in flight); its text is the failure's
\* message in variant A and "Unexpected Error!!!" in variant B.
C8_LoggedOnceBeforeResponse ==
    \A v \in Variants, r \in AllIds :
        Unclassified(raised[v][r]) =>
            /\ pc[v][r] = "Failed" =>
                  RecordsOf(v, r) = {} /\ resp[v][r] = NoResp /\ wire[v][r] = <<>>
            /\ pc[v][r] \in {"Returned", "Responded"} =>
                  /\ Cardinality(RecordsOf(v, r)) = 1
                  /\ resp[v][r] = GenericBody
            /\ \A i \in RecordsOf(v, r) :
                  /\ log[v][i].levelname = "ERROR"
                  /\ log[v][i].exc_info = FALSE
                  /\ log[v][i].text = IF v = "A" THEN raised[v][r].text
                                      ELSE "Unexpected Error!!!"

C8_Witness ==
    \E r \in AllIds :
        /\ Unclassified(raised["A"][r]) /\ Unclassified(raised["B"][r])
        /\ pc["A"][r] = "Returned" /\ Responded("B", r)
        /\ Cardinality(RecordsOf("A", r)) = 1 /\ Cardinality(RecordsOf("B", r)) = 1

\* C9: handling a classified failure emits no log record: a request has a
\* log record only if the failure its route raised was unclassified.
C9_ClassifiedLeavesLogAlone ==
    \A v \in Variants, r \in AllIds :
        RecordsOf(v, r) # {} => Unclassified(raised[v][r])

\* C10: fed the same request, variants A and B send the same status code and
\* the same body, for every failure a route can raise.
C10_VariantsAgree ==
    \A r \in AllIds :
        /\ (Responded("A", r) /\ Responded("B", r)) => wire["A"][r] = wire["B"][r]
        /\ (pc["A"][r] \in {"Returned", "Responded"} /\ pc["B"][r] \in {"Returned", "Responded"})
              => resp["A"][r] = resp["B"][r]

C10_Witness ==
    \E r \in AllIds :
        /\ Responded("A", r) /\ Responded("B", r)
        /\ Unclassified(raised["A"][r])
        /\ \E i \in RecordsOf("A", r), j \in RecordsOf("B", r) :
              log["A"][i].text # log["B"][j].text

====
